---- MODULE Spec2Model ----
(***************************************************************************)
(* A state-machine model of src/cache_simulator/cache.c: the set           *)
(* associative cache with its LRU / RRIP replacement engine, the pending   *)
(* and ready request lists, the coherence notification handler and tick.   *)
(* One action per entry point; memoryRequest's RRIP victim search and      *)
(* tick's call into the coherence component are the two places where a     *)
(* handler's position (pc) is visible, because the first is a while(1)     *)
(* loop and the second calls out to a component that calls back.           *)
(***************************************************************************)
EXTENDS Integers, Sequences, FiniteSets, TLC

VARIABLES
    use_RRIP,       \* cache.c:30, set by init from -R
    RRPV_bits,      \* cache.c:29
    num_sets,       \* cache.c:26
    lines_per_set,  \* cache.c:27
    block_size,     \* cache.c:28
    sets,           \* cache.c:25  set index -> way -> cache_line
    pendReq,        \* cache.c:49  list of pending requests, head first
    readyReq,       \* cache.c:48  list of ready requests, head first
    pc,             \* where the single thread of control is
    cur,            \* the memoryRequest call whose victim search is running
    calls,          \* number of memoryRequest calls made so far
    permCount,      \* number of permReq calls made on the coherence component
    lastPerm,       \* arguments of the latest permReq call
    cbLog,          \* completion callbacks invoked so far, in order
    outcomes,       \* hit (TRUE) or miss of each completed memoryRequest, in order
    script,         \* TRUE while every call so far follows ScenarioAddrs, granted
    roundTrip,      \* how far the latest request is through the round trip:
                    \* 1 not granted, 2 then notified, 3 then tick entered, 4 drained;
                    \* 5 granted at once, 6 then tick entered, 7 drained;
                    \* 8 after 6 a notification moved a request, 9 drained
    ev,             \* the latest event: entry point, its inputs and its outcome
    predictorSize,  \* branch.c:15, set by init from -s
    bhrSize,        \* branch.c:16, set by init from -b
    predictorModel, \* branch.c:17, set by init from -g
    predictorTable, \* branch.c:21  index -> 2-bit counter
    bhr,            \* branch.c:22
    branchState,    \* "unloaded", "running", or "exited" after exit(EXIT_FAILURE)
    branchCopy,     \* which of the two predictors of branch.c the process runs:
                    \* 1 (lines 1-183, with GSELECT), 2 (lines 184-326), 0 neither
    predLog         \* the branchRequest calls made so far, with what each returned

vars == <<use_RRIP, RRPV_bits, num_sets, lines_per_set, block_size, sets,
          pendReq, readyReq, pc, cur, calls, permCount, lastPerm,
          cbLog, outcomes, script, roundTrip, ev,
          predictorSize, bhrSize, predictorModel, predictorTable, bhr,
          branchState, branchCopy, predLog>>

\* the state of the branch predictor component
branchVars == <<predictorSize, bhrSize, predictorModel, predictorTable, bhr,
                branchState, branchCopy, predLog>>

config == <<use_RRIP, RRPV_bits, num_sets, lines_per_set, block_size>>

(***************************************************************************)
(* Bounds of the model and constants of the program.                       *)
(***************************************************************************)
\* Number of memoryRequest calls explored with every input; past it only the
\* calls that continue ScenarioAddrs are explored, to the scenario's end.
MaxReq == 3
\* Largest RRPV bit width (-R) explored.
MaxRRPVBits == 2
\* Width of the addresses explored (uint64_t in the source).
AddrWidth == 9
\* cache.c:32: never assigned by init, so the cache knows one processor.
processorCount == 1

\* coherence.h notification kinds; only DATA_RECV is acted upon (cache.c:235).
DATA_RECV == "DATA_RECV"
NotifyTypes == {"DATA_RECV", "INVALIDATE"}

MEM_LOAD == "MEM_LOAD"
MemOps == {"MEM_LOAD", "MEM_STORE"}

\* Byte addresses of the accesses explored (70 is not block aligned).
Addrs == {0, 64, 70, 128}
\* Block addresses a notification may carry.
NotifyAddrs == {0, 64, 128}
\* Processors that issue requests / that notifications name.
Procs == 0 .. (processorCount - 1)
NotifyProcs == 0 .. processorCount
\* The completion callback the caller passes with its tag-th request: callers
\* alternate between two callbacks.
CallbackOf(tag) == IF tag % 2 = 1 THEN "cbA" ELSE "cbB"
\* Answers of coherComp->permReq: 1 grants.
Perms == {0, 1}
\* -s, -E, -b option values explored.
Geometries == { [s |-> 0, E |-> 2, b |-> 6], [s |-> 1, E |-> 1, b |-> 6] }
\* The access sequence of the end-to-end scenarios.
ScenarioAddrs == <<0, 64, 0, 128>>

(***************************************************************************)
(* Address decoding.                                                       *)
(***************************************************************************)
RECURSIVE BitAnd(_, _, _)
BitAnd(x, y, n) ==
    IF n = 0 THEN 0
    ELSE (IF x % 2 = 1 /\ y % 2 = 1 THEN 1 ELSE 0) + 2 * BitAnd(x \div 2, y \div 2, n - 1)

\* ~(block_size - 1), as an AddrWidth-bit mask
BlockMask == (2 ^ AddrWidth) - 1 - (block_size - 1)

BlockAlign(memAddress) == BitAnd(memAddress, BlockMask, AddrWidth)

get_set_index_unscaled(address) == address % num_sets

get_set_index(address) == (address \div block_size) % num_sets

get_tag(address) == address \div (block_size * num_sets)

(***************************************************************************)
(* Lines and the replacement engine.                                       *)
(***************************************************************************)
Ways == 0 .. (lines_per_set - 1)

\* calloc'd line (cache.c:149)
FreshLine == [valid |-> FALSE, dirty |-> FALSE, tag |-> 0, LRU_counter |-> 0, RRPV |-> 0]

RRPVMax == (2 ^ RRPV_bits) - 1

update_LRU(set, way) ==
    [i \in DOMAIN set |->
        IF i = way THEN [set[i] EXCEPT !.LRU_counter = 0]
        ELSE IF set[i].valid /\ set[i].LRU_counter < set[way].LRU_counter
             THEN [set[i] EXCEPT !.LRU_counter = @ + 1]
             ELSE set[i]]

update_RRIP_LongInsert(set, way, hit) ==
    IF hit THEN [set EXCEPT ![way].RRPV = 0]
    ELSE [i \in DOMAIN set |->
            IF i = way THEN [set[i] EXCEPT !.RRPV = RRPVMax - 1]
            ELSE IF set[i].valid /\ set[i].RRPV < RRPVMax
                 THEN [set[i] EXCEPT !.RRPV = @ + 1]
                 ELSE set[i]]

update_RRIP(set, way, hit) ==
    IF hit THEN [set EXCEPT ![way].RRPV = 0]
    ELSE [i \in DOMAIN set |->
            IF i = way THEN [set[i] EXCEPT !.RRPV = (2 ^ (RRPV_bits - 1)) - 1]
            ELSE IF set[i].valid /\ set[i].RRPV < RRPVMax
                 THEN [set[i] EXCEPT !.RRPV = @ + 1]
                 ELSE set[i]]

RECURSIVE LRUScanLastMax(_, _, _, _)
LRUScanLastMax(set, i, max_lru, victim) ==
    IF i >= lines_per_set THEN victim
    ELSE IF ~set[i].valid THEN i
    ELSE IF set[i].LRU_counter >= max_lru
         THEN LRUScanLastMax(set, i + 1, set[i].LRU_counter, i)
         ELSE LRUScanLastMax(set, i + 1, max_lru, victim)

\* find_victim, LRU branch: the scan of cache.c:106-115 from way i on.
RECURSIVE LRUScan(_, _, _, _)
LRUScan(set, i, max_lru, victim) ==
    IF i >= lines_per_set THEN victim
    ELSE IF ~set[i].valid THEN i
    ELSE IF set[i].LRU_counter > max_lru
         THEN LRUScan(set, i + 1, set[i].LRU_counter, i)
         ELSE LRUScan(set, i + 1, max_lru, victim)

find_victim_LRU(set) == LRUScan(set, 0, -1, -1)

\* find_victim, RRIP branch: one scan of cache.c:90-94; -1 when no line is at
\* the maximum and the loop goes on to age.
RRIPScan(set) ==
    IF \E i \in DOMAIN set : set[i].RRPV = RRPVMax
    THEN CHOOSE i \in DOMAIN set :
            /\ set[i].RRPV = RRPVMax
            /\ \A j \in DOMAIN set : set[j].RRPV = RRPVMax => i <= j
    ELSE -1

RRIPAgeTwice(set) ==
    [i \in DOMAIN set |->
        IF set[i].valid THEN [set[i] EXCEPT !.RRPV = @ + 2] ELSE set[i]]

\* find_victim, RRIP branch: one aging pass, cache.c:96-100.
RRIPAge(set) ==
    [i \in DOMAIN set |->
        IF set[i].valid THEN [set[i] EXCEPT !.RRPV = @ + 1] ELSE set[i]]

HitScanFirstWay(set, cache_tag, way) ==
    IF set[0].valid /\ set[0].tag = cache_tag THEN 0 ELSE lines_per_set

\* the hit test of cache.c:187-192: the way the loop stops at, lines_per_set when
\* no valid line holds the tag.
RECURSIVE HitScan(_, _, _)
HitScan(set, cache_tag, way) ==
    IF way >= lines_per_set THEN lines_per_set
    ELSE IF set[way].valid /\ set[way].tag = cache_tag THEN way
    ELSE HitScan(set, cache_tag, way + 1)

\* cache.c:204-205
Install(set, evict_way, cache_tag) ==
    [set EXCEPT ![evict_way].valid = TRUE, ![evict_way].tag = cache_tag]

(***************************************************************************)
(* Events.                                                                 *)
(***************************************************************************)
\* A memoryRequest call: its arguments, and the answer permReq will give it.
NoCall == [op |-> "none", memAddress |-> 0, processorNum |-> 0, tag |-> 0,
           callback |-> "none", perm |-> 0]

\* The latest event: a memoryRequest call with its outcome (hit, way), or a
\* notification (type, processorNum, addr; hit tells whether a request moved)
\* (evicted: the miss replaced a valid line).
Event(kind, call, type, addr, hit, way, evicted) ==
    [kind |-> kind, op |-> call.op, memAddress |-> call.memAddress,
     processorNum |-> call.processorNum, tag |-> call.tag, callback |-> call.callback,
     perm |-> call.perm, type |-> type, addr |-> addr, hit |-> hit, way |-> way,
     evicted |-> evicted]

Notification(kind, type, processorNum, addr, moved) ==
    Event(kind, [NoCall EXCEPT !.processorNum = processorNum], type, addr, moved, 0, FALSE)

(***************************************************************************)
(* init, cache.c:119-169.                                                  *)
(***************************************************************************)
\* the lines as init's calloc leaves them, cache.c:147-153
FreshSets == [s \in 0 .. (num_sets - 1) |-> [w \in 0 .. (lines_per_set - 1) |-> FreshLine]]

\* cache.c:123-144: the options parsed; without -R the policy is LRU
Configured ==
    /\ \E g \in Geometries :
          /\ num_sets = 2 ^ g.s
          /\ lines_per_set = g.E
          /\ block_size = 2 ^ g.b
    /\ \E R \in 0 .. MaxRRPVBits :
          /\ use_RRIP = (R > 0)
          /\ RRPV_bits = R

\* branch.c:15-22: the predictor's file-scope state in a process that runs the
\* cache component, where the predictor's init is never called
BranchUnloaded ==
    /\ predictorSize = 0
    /\ bhrSize = 0
    /\ predictorModel = 0
    /\ predictorTable = <<>>
    /\ bhr = 0
    /\ branchState = "unloaded"
    /\ branchCopy = 0
    /\ predLog = <<>>

Init ==
    /\ BranchUnloaded
    /\ Configured
    /\ sets = FreshSets
    /\ pendReq = <<>>
    /\ readyReq = <<>>
    /\ pc = "idle"
    /\ cur = NoCall
    /\ calls = 0
    /\ permCount = 0
    /\ lastPerm = [isLoad |-> FALSE, addr |-> 0, processorNum |-> 0]
    /\ cbLog = <<>>
    /\ outcomes = <<>>
    /\ script = TRUE
    /\ roundTrip = 0
    /\ ev = Event("init", NoCall, "none", 0, FALSE, 0, FALSE)

(***************************************************************************)
(* memoryRequest, cache.c:172-228.                                         *)
(***************************************************************************)
\* cache.c:215-219
NewRequest(call) ==
    [tag |-> call.tag, addr |-> BlockAlign(call.memAddress),
     processorNum |-> call.processorNum, callback |-> call.callback]

PermArgsUnaligned(call) ==
    [isLoad |-> (call.op = MEM_LOAD), addr |-> call.memAddress,
     processorNum |-> call.processorNum]

\* cache.c:213: the arguments handed to coherComp->permReq
PermArgs(call) ==
    [isLoad |-> (call.op = MEM_LOAD), addr |-> BlockAlign(call.memAddress),
     processorNum |-> call.processorNum]

GrantedInverted(perm) == perm # 1

\* cache.c:221
Granted(perm) == perm = 1

\* cache.c:221-227: the two lists after the new request is linked in
ReadyAfterRequest(pr, perm) == IF Granted(perm) THEN <<pr>> \o readyReq ELSE readyReq

PendAfterRequestAppended(pr, perm) ==
    IF Granted(perm) THEN pendReq ELSE Append(pendReq, pr)

PendAfterRequest(pr, perm) == IF Granted(perm) THEN pendReq ELSE <<pr>> \o pendReq

\* whether the call continues the scenario's access sequence, granted at once
OnScript(call) ==
    /\ script
    /\ calls < Len(ScenarioAddrs)
    /\ call.memAddress = ScenarioAddrs[calls + 1]
    /\ call.perm = 1

\* cache.c:213-227: the permission request and the queueing, once the lines are
\* updated to newset for the access that hit (or missed and took) way.
Finish(call, newset, hit, way) ==
    /\ sets' = [sets EXCEPT ![get_set_index(BlockAlign(call.memAddress))] = newset]
    /\ permCount' = permCount + 1
    /\ lastPerm' = PermArgs(call)
    /\ readyReq' = ReadyAfterRequest(NewRequest(call), call.perm)
    /\ pendReq' = PendAfterRequest(NewRequest(call), call.perm)
    /\ outcomes' = Append(outcomes, hit)
    /\ pc' = "idle"
    /\ cur' = NoCall
    /\ roundTrip' = (IF Granted(call.perm) THEN 5 ELSE 1)
    /\ ev' = Event("request", call, "none", BlockAlign(call.memAddress), hit, way,
                   ~hit /\ sets[get_set_index(BlockAlign(call.memAddress))][way].valid)

\* cache.c:194-200
HitUpdate(set, way) ==
    IF use_RRIP THEN update_RRIP(set, way, TRUE) ELSE update_LRU(set, way)

\* cache.c:204-210
MissUpdate(set, evict_way, cache_tag) ==
    IF use_RRIP THEN update_RRIP(Install(set, evict_way, cache_tag), evict_way, FALSE)
    ELSE update_LRU(Install(set, evict_way, cache_tag), evict_way)

MemoryRequest(op, memAddress, processorNum, perm) ==
    /\ pc = "idle"
    /\ LET call == [op |-> op, memAddress |-> memAddress, processorNum |-> processorNum,
                    tag |-> calls + 1, callback |-> CallbackOf(calls + 1),
                    perm |-> perm]
           addr == BlockAlign(memAddress)
           set == sets[get_set_index(addr)]
           cache_tag == get_tag(addr)
           way == HitScan(set, cache_tag, 0)
       IN  /\ calls < MaxReq \/ OnScript(call)
           /\ calls' = calls + 1
           /\ script' = OnScript(call)
           /\ IF way < lines_per_set
              THEN Finish(call, HitUpdate(set, way), TRUE, way)
              ELSE IF ~use_RRIP
              THEN Finish(call, MissUpdate(set, find_victim_LRU(set), cache_tag),
                          FALSE, find_victim_LRU(set))
              ELSE /\ pc' = "find_victim"
                   /\ cur' = call
                   /\ roundTrip' = 0
                   /\ ev' = Event("call", call, "none", addr, FALSE, 0, FALSE)
                   /\ UNCHANGED <<sets, pendReq, readyReq, permCount, lastPerm, outcomes>>
    /\ UNCHANGED <<config, branchVars, cbLog>>

\* One turn of find_victim's while (1), cache.c:88-101, and, when it returns,
\* the rest of memoryRequest.
FindVictimStep ==
    /\ pc = "find_victim"
    /\ LET addr == BlockAlign(cur.memAddress)
           set == sets[get_set_index(addr)]
           evict_way == RRIPScan(set)
       IN  IF evict_way # -1
           THEN Finish(cur, MissUpdate(set, evict_way, get_tag(addr)), FALSE, evict_way)
           ELSE /\ sets' = [sets EXCEPT ![get_set_index(addr)] = RRIPAge(set)]
                /\ roundTrip' = 0
                /\ ev' = Event("aging", cur, "none", addr, FALSE, 0, FALSE)
                /\ UNCHANGED <<pendReq, readyReq, pc, cur, permCount, lastPerm, outcomes>>
    /\ UNCHANGED <<config, branchVars, calls, cbLog, script>>

(***************************************************************************)
(* coherCallback, cache.c:230-262.                                         *)
(***************************************************************************)
Matches(pr, processorNum, addr) == pr.processorNum = processorNum /\ pr.addr = addr

\* cache.c:249-258: the first position from k on whose request matches, 0 if none
RECURSIVE ScanPend(_, _, _, _)
ScanPend(list, k, processorNum, addr) ==
    IF k > Len(list) THEN 0
    ELSE IF Matches(list[k], processorNum, addr) THEN k
    ELSE ScanPend(list, k + 1, processorNum, addr)

MatchPosOrHead(processorNum, addr) ==
    IF ScanPend(pendReq, 1, processorNum, addr) = 0 THEN 1
    ELSE ScanPend(pendReq, 1, processorNum, addr)

\* the position of the pending request the notification moves, 0 if none
MatchPos(processorNum, addr) ==
    IF Matches(Head(pendReq), processorNum, addr) THEN 1
    ELSE ScanPend(pendReq, 2, processorNum, addr)

RemoveNone(list, k) == list

\* cache.c:240-241, 251: the list with its k-th request unlinked
RemoveAt(list, k) == SubSeq(list, 1, k - 1) \o SubSeq(list, k + 1, Len(list))

\* the assertions of cache.c:231, 232 and 260 that fail on this notification
AssertFails(type, processorNum, addr) ==
    \/ pendReq = <<>>
    \/ ~(processorNum < processorCount)
    \/ (type = DATA_RECV /\ MatchPos(processorNum, addr) = 0)

\* cache.c:235
Ignored(type) == type # DATA_RECV

\* whether the notification is the DATA_RECV for the latest request, which was
\* not granted, arriving right after it
Answers(type, processorNum, addr) ==
    /\ roundTrip = 1
    /\ pc = "idle"
    /\ type = DATA_RECV
    /\ processorNum = lastPerm.processorNum
    /\ addr = lastPerm.addr

\* A failed assert ends the process: nothing of the cache is left, only the
\* notification that ended it is remembered.
Abort(type, processorNum, addr) ==
    /\ pc' = "aborted"
    /\ ev' = Notification("abort", type, processorNum, addr, FALSE)
    /\ sets' = FreshSets
    /\ pendReq' = <<>>
    /\ readyReq' = <<>>
    /\ cur' = NoCall
    /\ roundTrip' = 0
    /\ calls' = 0
    /\ permCount' = 0
    /\ lastPerm' = [isLoad |-> FALSE, addr |-> 0, processorNum |-> 0]
    /\ cbLog' = <<>>
    /\ outcomes' = <<>>
    /\ script' = FALSE

CoherCallback(type, processorNum, addr) ==
    /\ pc \in {"idle", "coher_tick"}
    /\ IF AssertFails(type, processorNum, addr)
       THEN Abort(type, processorNum, addr)
       ELSE /\ IF Ignored(type)
               THEN /\ ev' = Notification("coher", type, processorNum, addr, FALSE)
                    /\ UNCHANGED <<pendReq, readyReq>>
               ELSE /\ pendReq' = RemoveAt(pendReq, MatchPos(processorNum, addr))
                    /\ readyReq' = <<pendReq[MatchPos(processorNum, addr)]>> \o readyReq
                    /\ ev' = Notification("coher", type, processorNum, addr, TRUE)
            /\ roundTrip' = (IF Answers(type, processorNum, addr) THEN 2
                             ELSE IF roundTrip = 6 /\ ~Ignored(type) THEN 8 ELSE 0)
            /\ UNCHANGED <<sets, pc, cur, calls, permCount, lastPerm, cbLog, outcomes,
                           script>>
    /\ UNCHANGED <<config, branchVars>>

(***************************************************************************)
(* tick, cache.c:264-278.                                                  *)
(***************************************************************************)
\* cache.c:265: the call into the coherence component, which may notify
TickBegin ==
    /\ pc = "idle"
    /\ pc' = "coher_tick"
    /\ roundTrip' = (IF roundTrip = 2 THEN 3 ELSE IF roundTrip = 5 THEN 6 ELSE 0)
    /\ ev' = Event("tick", NoCall, "none", 0, FALSE, 0, FALSE)
    /\ UNCHANGED <<config, branchVars, sets, pendReq, readyReq, cur, calls, permCount, lastPerm,
                   cbLog, outcomes, script>>

InvocationsAfterHead(list) ==
    [i \in 1 .. (Len(list) - 1) |->
        [callback |-> list[i + 1].callback, processorNum |-> list[i + 1].processorNum,
         tag |-> list[i + 1].tag]]

\* cache.c:271: the callback invocations of one drain, in list order
Invocations(list) ==
    [i \in 1 .. Len(list) |->
        [callback |-> list[i].callback, processorNum |-> list[i].processorNum,
         tag |-> list[i].tag]]

TickDrainKeepsReady ==
    /\ pc = "coher_tick"
    /\ cbLog' = cbLog \o Invocations(readyReq)
    /\ pc' = "idle"
    /\ roundTrip' = 0
    /\ ev' = Event("drain", NoCall, "none", 0, FALSE, 0, FALSE)
    /\ UNCHANGED <<config, branchVars, sets, pendReq, readyReq, cur, calls, permCount,
                   lastPerm, outcomes, script>>

\* cache.c:268-277
TickDrain ==
    /\ pc = "coher_tick"
    /\ cbLog' = cbLog \o Invocations(readyReq)
    /\ readyReq' = <<>>
    /\ pc' = "idle"
    /\ roundTrip' = (IF roundTrip = 3 THEN 4 ELSE IF roundTrip = 6 THEN 7
                     ELSE IF roundTrip = 8 THEN 9 ELSE 0)
    /\ ev' = Event("drain", NoCall, "none", 0, FALSE, 0, FALSE)
    /\ UNCHANGED <<config, branchVars, sets, pendReq, cur, calls, permCount, lastPerm, outcomes,
                   script>>

Next ==
    \/ \E op \in MemOps, memAddress \in Addrs, processorNum \in Procs, perm \in Perms :
          MemoryRequest(op, memAddress, processorNum, perm)
    \/ FindVictimStep
    \/ \E type \in NotifyTypes, processorNum \in NotifyProcs, addr \in NotifyAddrs :
          CoherCallback(type, processorNum, addr)
    \/ TickBegin
    \/ TickDrain

Spec == Init /\ [][Next]_vars

(***************************************************************************)
(* update_RRIP and find_victim's RRIP branch as functions of the set: from *)
(* the fresh cache no line ever becomes valid under RRIP (the first victim *)
(* search does not return), so their effect on populated sets is explored  *)
(* from sets drawn from the values a line's fields can take.               *)
(***************************************************************************)
\* Tags the lines of a populated set start with.
PopulatedTags == {0, 1}

\* a calloc'd line, or a valid line with a tag and an RRPV of RRPV_bits bits
PopulatedLines ==
    {FreshLine} \cup
    { [valid |-> TRUE, dirty |-> FALSE, tag |-> g, LRU_counter |-> 0, RRPV |-> r] :
        g \in PopulatedTags, r \in 0 .. RRPVMax }

\* sets of such lines in which no two valid lines hold the same tag
PopulatedSets ==
    { f \in [0 .. (num_sets - 1) -> [0 .. (lines_per_set - 1) -> PopulatedLines]] :
        \A s \in DOMAIN f : \A v, w \in DOMAIN f[s] :
            (v # w /\ f[s][v].valid /\ f[s][w].valid) => f[s][v].tag # f[s][w].tag }

InitRRIP ==
    /\ BranchUnloaded
    /\ Configured
    /\ use_RRIP
    /\ sets \in PopulatedSets
    /\ pendReq = <<>>
    /\ readyReq = <<>>
    /\ pc = "idle"
    /\ cur = NoCall
    /\ calls = 0
    /\ permCount = 0
    /\ lastPerm = [isLoad |-> FALSE, addr |-> 0, processorNum |-> 0]
    /\ cbLog = <<>>
    /\ outcomes = <<>>
    /\ script = FALSE
    /\ roundTrip = 0
    /\ ev = Event("init", NoCall, "none", 0, FALSE, 0, FALSE)

\* loads, each granted at once
NextRRIP ==
    \/ \E memAddress \in Addrs, processorNum \in Procs :
          MemoryRequest(MEM_LOAD, memAddress, processorNum, 1)
    \/ FindVictimStep

SpecRRIP == InitRRIP /\ [][NextRRIP]_vars

\* The coherence component answers a pending request with its DATA_RECV.
DeliverPending ==
    \E i \in 1 .. Len(pendReq) :
        CoherCallback(DATA_RECV, pendReq[i].processorNum, pendReq[i].addr)

\* The driver keeps calling tick, every call runs to its end, and every pending
\* request is eventually answered.
FairSpec ==
    /\ Spec
    /\ WF_vars(TickBegin)
    /\ WF_vars(TickDrain)
    /\ WF_vars(FindVictimStep)
    /\ WF_vars(DeliverPending)

(***************************************************************************)
(* The branch predictor, src/branch_simulator/branch.c. The file holds two  *)
(* predictors: lines 1-183 with the counter-only and the GSELECT model,    *)
(* lines 184-326 counter-only whatever -g says; branchCopy tells which one *)
(* the process runs.                                                       *)
(***************************************************************************)
\* Number of branchRequest calls explored.
MaxBranchReq == 3

\* -s, -b and -g option values explored
PredictorSizes == {1, 4}
BhrSizes == {0, 1, 2}
PredictorModels == {0, 1, 2}

\* Branch records explored: the branch's address and the address it went to,
\* which is pcAddress + 4 when it was not taken (8 and 136 index the same
\* counter of a 16-entry table, 136 >> 3 being 17).
BranchPCs == {8, 16, 136}
BranchTarget == 64
NextPCs(pcAddress) == {pcAddress + 4, BranchTarget}

\* branch.c:63-71
FreshTable == [i \in 0 .. ((2 ^ predictorSize) - 1) |-> 1]

\* the cache's file-scope state (cache.c:24-49) in a process that runs the
\* predictor component, where the cache's init is never called
CacheUnloaded ==
    /\ use_RRIP = FALSE
    /\ RRPV_bits = 0
    /\ num_sets = 0
    /\ lines_per_set = 0
    /\ block_size = 0
    /\ sets = <<>>
    /\ pendReq = <<>>
    /\ readyReq = <<>>
    /\ pc = "unloaded"
    /\ cur = NoCall
    /\ calls = 0
    /\ permCount = 0
    /\ lastPerm = [isLoad |-> FALSE, addr |-> 0, processorNum |-> 0]
    /\ cbLog = <<>>
    /\ outcomes = <<>>
    /\ script = FALSE
    /\ roundTrip = 0
    /\ ev = Event("init", NoCall, "none", 0, FALSE, 0, FALSE)

\* branch.c:31-88 and 213-261
InitBranch ==
    /\ CacheUnloaded
    /\ branchCopy \in {1, 2}
    /\ predictorSize \in PredictorSizes
    /\ bhrSize \in BhrSizes
    /\ predictorModel \in PredictorModels
    /\ predictorTable = FreshTable
    /\ bhr = 0
    /\ branchState = "running"
    /\ predLog = <<>>

\* branch.c:99
PcIndexBits(pcAddress) == (pcAddress \div 8) % (2 ^ predictorSize)

\* branch.c:102-119: the low bits of (pc >> 3) alone, or, for GSELECT, the low
\* predictorSize - bhrSize of them above the bhrSize history bits; the shift and
\* the or of disjoint bit ranges are a product and a sum. Any other model
\* leaves index 0. The second predictor (branch.c:271) has the first form only.
Index(pcAddress) ==
    IF branchCopy = 2 \/ predictorModel = 0 THEN PcIndexBits(pcAddress)
    ELSE IF predictorModel = 2
         THEN (PcIndexBits(pcAddress) % (2 ^ (predictorSize - bhrSize))) * (2 ^ bhrSize)
                + (bhr % (2 ^ bhrSize))
         ELSE 0

PredictionLowBit(counter) == counter % 2

\* branch.c:123: the high bit of the 2-bit counter
Prediction(counter) == (counter \div 2) % 2

\* branch.c:127-133
PredAddress(counter, pcAddress, nextPCAddress) ==
    IF Prediction(counter) = 1 THEN nextPCAddress ELSE pcAddress + 4

\* branch.c:136
ActualOutcome(pcAddress, nextPCAddress) == IF nextPCAddress # pcAddress + 4 THEN 1 ELSE 0

UpdatedCounterUnsaturated(counter, actualOutcome) ==
    IF actualOutcome = 1 THEN counter + 1
    ELSE (IF counter > 0 THEN counter - 1 ELSE counter)

\* branch.c:139-145 and 291-297
UpdatedCounter(counter, actualOutcome) ==
    IF actualOutcome = 1
    THEN (IF counter < 3 THEN counter + 1 ELSE counter)
    ELSE (IF counter > 0 THEN counter - 1 ELSE counter)

\* branch.c:148-151; the second predictor has no history register
UpdatedBhr(actualOutcome) ==
    IF branchCopy = 1 /\ predictorModel = 2 /\ bhrSize > 0
    THEN (2 * bhr + actualOutcome) % (2 ^ bhrSize)
    ELSE bhr

\* branch.c:91-155 and 264-301
BranchRequest(pcAddress, nextPCAddress) ==
    /\ branchState = "running"
    /\ Len(predLog) < MaxBranchReq
    /\ IF branchCopy = 1 /\ predictorModel = 2 /\ bhrSize > predictorSize
       THEN /\ branchState' = "exited"
            /\ UNCHANGED <<predictorTable, bhr, predLog>>
       ELSE LET index == Index(pcAddress)
                counter == predictorTable[index]
                actualOutcome == ActualOutcome(pcAddress, nextPCAddress)
            IN  /\ predictorTable' =
                      [predictorTable EXCEPT ![index] = UpdatedCounter(counter, actualOutcome)]
                /\ bhr' = UpdatedBhr(actualOutcome)
                /\ predLog' = Append(predLog,
                      [pcAddress |-> pcAddress, nextPCAddress |-> nextPCAddress,
                       index |-> index, counter |-> counter,
                       predAddress |-> PredAddress(counter, pcAddress, nextPCAddress)])
                /\ UNCHANGED branchState
    /\ UNCHANGED <<predictorSize, bhrSize, predictorModel, branchCopy>>
    /\ UNCHANGED <<config, sets, pendReq, readyReq, pc, cur, calls, permCount, lastPerm,
                   cbLog, outcomes, script, roundTrip, ev>>

NextBranch ==
    \E pcAddress \in BranchPCs : \E nextPCAddress \in NextPCs(pcAddress) :
        BranchRequest(pcAddress, nextPCAddress)

SpecBranch == InitBranch /\ [][NextBranch]_vars

(***************************************************************************)
(* Claims.                                                                 *)
(***************************************************************************)
\* how often the completion callback of the request with this tag was invoked
Fired(tag) == Cardinality({i \in 1 .. Len(cbLog) : cbLog[i].tag = tag})

\* the invocation a request owes its caller
Owed(tag, processorNum) ==
    [callback |-> CallbackOf(tag), processorNum |-> processorNum, tag |-> tag]

\* C1: a request that permReq does not grant, then the DATA_RECV notification
\* for its (processor, block address), then a tick: the request's callback has
\* not been invoked before that tick, and when the tick's drain is over it has
\* been invoked exactly once, with the request's processor and tag.
C1_RoundTrip ==
    /\ roundTrip \in {1, 2, 3} => Fired(calls) = 0
    /\ roundTrip = 4 =>
          /\ Fired(calls) = 1
          /\ \E i \in 1 .. Len(cbLog) : cbLog[i] = Owed(calls, lastPerm.processorNum)

C1_Witness == roundTrip = 4 /\ Len(pendReq) > 0 /\ Len(cbLog) > 1

\* the largest number of calls any behaviour makes
MaxCalls == IF MaxReq > Len(ScenarioAddrs) THEN MaxReq ELSE Len(ScenarioAddrs)

\* a failed assert of the notification handler has ended the process, so that
\* tick cannot be called any more
ProcessEnded == pc = "aborted"

\* C2 (safety half): no callback is invoked twice, and each invocation carries
\* the callback, processor and tag of a request that was made.
C2_AtMostOnce ==
    \A i \in 1 .. Len(cbLog) :
        /\ cbLog[i].tag \in 1 .. calls
        /\ Fired(cbLog[i].tag) = 1
        /\ \E processorNum \in Procs : cbLog[i] = Owed(cbLog[i].tag, processorNum)

\* C2: every request made has its callback invoked at most once, with its own
\* processor and tag, and, with tick called again and again and every pending
\* request answered by its DATA_RECV, exactly once in the end (as long as
\* the process runs).
C2_CompletesOnce ==
    /\ []C2_AtMostOnce
    /\ \A t \in 1 .. MaxCalls : [](calls >= t => <>(Fired(t) = 1 \/ ProcessEnded))

\* C3: the pending list never holds two requests of the same processor for the
\* same block address.
C3_AtMostOnePending ==
    \A i, j \in 1 .. Len(pendReq) :
        i # j => ~Matches(pendReq[i], pendReq[j].processorNum, pendReq[j].addr)

\* the block addresses the valid lines of a set hold
BlocksHeld(set_index) ==
    { (sets[set_index][w].tag * num_sets + set_index) * block_size :
        w \in { v \in Ways : sets[set_index][v].valid } }

\* the outcomes both end-to-end scenarios expect: miss, miss, hit, miss
ScenarioOutcomes == <<FALSE, FALSE, TRUE, FALSE>>

ScenarioGeometry == num_sets = 1 /\ lines_per_set = 2 /\ block_size = 64

\* C4: on the fresh 1-set 2-way LRU cache with 64-byte blocks the accesses
\* 0, 64, 0, 128, all granted at once, miss, miss, hit and miss, and after the
\* fourth the set holds blocks 0 and 128.
C4_ScenarioA ==
    (ScenarioGeometry /\ ~use_RRIP /\ script /\ pc = "idle") =>
        /\ outcomes = SubSeq(ScenarioOutcomes, 1, calls)
        /\ calls = Len(ScenarioAddrs) => BlocksHeld(0) = {0, 128}

\* the set the running victim search works on
SearchSet == sets[get_set_index(BlockAlign(cur.memAddress))]

\* a turn of the victim search that neither returns nor changes a line: every
\* later turn is the same, the search never returns
SearchStalled ==
    /\ pc = "find_victim"
    /\ RRIPScan(SearchSet) = -1
    /\ RRIPAge(SearchSet) = SearchSet

\* C5: under RRIP the victim search of a miss terminates, with a line whose
\* RRPV is 2^RRPV_bits - 1: no turn of its loop leaves it where it was, and the
\* line a turn returns is at the maximum.
C5_VictimSearchTerminates ==
    /\ ~SearchStalled
    /\ (pc = "find_victim" /\ RRIPScan(SearchSet) # -1) =>
            SearchSet[RRIPScan(SearchSet)].RRPV = (2 ^ RRPV_bits) - 1

\* C6: on the fresh 1-set 2-way RRIP cache with 2 bits and 64-byte blocks the
\* accesses 0, 64, 0, 128, all granted at once, all complete, and miss, miss,
\* hit and miss; the line a victim search returns has RRPV 3.
C6_ScenarioB ==
    (ScenarioGeometry /\ use_RRIP /\ RRPV_bits = 2 /\ script) =>
        /\ pc = "find_victim" => (RRIPScan(SearchSet) # -1 \/ RRIPAge(SearchSet) # SearchSet)
        /\ (pc = "find_victim" /\ RRIPScan(SearchSet) # -1) =>
                SearchSet[RRIPScan(SearchSet)].RRPV = 3
        /\ outcomes = SubSeq(ScenarioOutcomes, 1, Len(outcomes))
        /\ pc = "idle" => Len(outcomes) = calls

\* the set an address indexes, written out: (address / block size) mod sets
SetOf(address) == (address \div block_size) % num_sets

\* the lowest way of the set whose line is invalid
FirstInvalid(set) ==
    CHOOSE w \in DOMAIN set : ~set[w].valid /\ \A v \in DOMAIN set : ~set[v].valid => w <= v

\* C7: a miss under LRU takes the lowest invalid way of its set if there is
\* one; otherwise a way whose recency counter is the largest of the set, and
\* the lowest such way. The line of that way then holds the accessed block.
C7_LRUVictim ==
    [][ (ev'.kind = "request" /\ ~ev'.hit /\ ~use_RRIP /\ calls' = calls + 1) =>
            LET set == sets[SetOf(ev'.addr)]
                way == ev'.way
            IN  /\ way \in DOMAIN set
                /\ IF \E w \in DOMAIN set : ~set[w].valid
                   THEN way = FirstInvalid(set)
                   ELSE /\ \A w \in DOMAIN set : set[w].LRU_counter <= set[way].LRU_counter
                        /\ \A w \in DOMAIN set :
                              w < way => set[w].LRU_counter < set[way].LRU_counter
                /\ sets'[SetOf(ev'.addr)][way].valid
                /\ sets'[SetOf(ev'.addr)][way].tag = ev'.addr \div (block_size * num_sets)
      ]_vars

\* a miss on a full 2-way LRU set: both lines were valid, their counters tied,
\* and way 0 was taken
C7_Witness ==
    /\ ev.kind = "request" /\ ev.evicted /\ ~use_RRIP
    /\ lines_per_set = 2 /\ ev.way = 0
    /\ \A w \in Ways : sets[SetOf(ev.addr)][w].valid
    /\ outcomes = <<FALSE, FALSE, FALSE>>

\* C8: a request for the block of the request just before it, which hit, hits
\* too; and no step of a request changes a line of a set other than the one
\* its address indexes.
C8_RehitAndIsolation ==
    [][ /\ (ev.kind = "request" /\ ev.hit /\ ev'.kind = "request"
            /\ calls' = calls + 1 /\ ev'.addr = ev.addr) => ev'.hit
        /\ ev'.kind \in {"request", "call", "aging"} =>
              \A s \in DOMAIN sets : s # SetOf(ev'.addr) => sets'[s] = sets[s]
      ]_vars

\* two hits in a row on block 64 of a 2-set cache, whose other set is untouched
C8_Witness ==
    /\ num_sets = 2
    /\ outcomes = <<FALSE, TRUE, TRUE>>
    /\ ev.kind = "request" /\ ev.hit /\ ev.addr = 64
    /\ sets[0] = FreshSets[0]
    /\ sets[1][0].valid

\* C9: a memoryRequest call that returns has sent exactly one permission
\* request, for a hit as for a miss, with isLoad telling whether the access is
\* a load, the block-aligned address of the access and the caller's processor;
\* no other step sends one.
C9_OnePermissionPerRequest ==
    [][ pc' # "aborted" =>
            IF Len(outcomes') = Len(outcomes) + 1
            THEN /\ ev'.kind = "request"
                 /\ permCount' = permCount + 1
                 /\ lastPerm' = [isLoad |-> (ev'.op = "MEM_LOAD"),
                                 addr |-> ev'.memAddress - (ev'.memAddress % block_size),
                                 processorNum |-> ev'.processorNum]
            ELSE permCount' = permCount /\ lastPerm' = lastPerm
      ]_vars

\* a store to an unaligned address that hit, the second request of the run
C9_Witness ==
    /\ ev.kind = "request" /\ ev.hit /\ ev.op = "MEM_STORE" /\ ev.memAddress = 70
    /\ permCount = 2
    /\ lastPerm = [isLoad |-> FALSE, addr |-> 64, processorNum |-> 0]

\* C10: a notification of another kind than DATA_RECV, naming a processor of
\* the cache, is ignored in every state: the two lists and the lines stay as
\* they are and no assertion fails.
C10_OtherKindsIgnored ==
    [][ (ev'.kind \in {"coher", "abort"} /\ ev'.type # DATA_RECV
            /\ ev'.processorNum < processorCount) =>
            /\ pc' # "aborted"
            /\ pendReq' = pendReq
            /\ readyReq' = readyReq
            /\ sets' = sets
      ]_vars

\* whether some pending request is of this processor and block address
SomePending(processorNum, addr) ==
    \E k \in 1 .. Len(pendReq) :
        pendReq[k].processorNum = processorNum /\ pendReq[k].addr = addr

\* C11: a DATA_RECV notification for a (processor, block address) that no
\* pending request has, the empty pending list included, ends the process on a
\* failed assertion: it is not passed over in silence and it moves no request.
C11_UnmatchedDataIsFatal ==
    [][ (ev'.kind \in {"coher", "abort"} /\ ev'.type = DATA_RECV
            /\ ~SomePending(ev'.processorNum, ev'.addr)) =>
            /\ pc' = "aborted"
            /\ ev'.kind = "abort"
            /\ ~ev'.hit
            /\ readyReq' = <<>>
      ]_vars

\* the process ended by a DATA_RECV notification naming the cache's processor
C11_Witness ==
    /\ pc = "aborted"
    /\ ev.kind = "abort" /\ ev.type = DATA_RECV
    /\ ev.processorNum < processorCount /\ ev.addr = 128

\* the list entry of the request the latest event completed
Queued(e) ==
    [tag |-> e.tag, addr |-> e.addr, processorNum |-> e.processorNum,
     callback |-> e.callback]

\* C12: a request granted at once goes to the head of the ready list and not
\* to the pending list, a request not granted to the pending list and not to
\* the ready list; no callback is invoked by a step that is not tick's drain;
\* a ready request stays ready until a drain, and the drain invokes the
\* callback of every ready request, so that a request granted at once has its
\* callback invoked in the next tick.
C12_PlacementAndCallbackTiming ==
    /\ [](roundTrip = 7 => Fired(calls) = 1)
    /\ [][ pc' # "aborted" =>
            /\ ev'.kind = "request" =>
                  IF ev'.perm = 1
                  THEN readyReq' = <<Queued(ev')>> \o readyReq /\ pendReq' = pendReq
                  ELSE pendReq' = <<Queued(ev')>> \o pendReq /\ readyReq' = readyReq
            /\ ev'.kind # "drain" =>
                  /\ cbLog' = cbLog
                  /\ \A i \in 1 .. Len(readyReq) :
                        \E j \in 1 .. Len(readyReq') : readyReq'[j] = readyReq[i]
            /\ ev'.kind = "drain" =>
                  \A i \in 1 .. Len(readyReq) :
                      \E j \in (Len(cbLog) + 1) .. Len(cbLog') :
                          cbLog'[j] = Owed(readyReq[i].tag, readyReq[i].processorNum)
      ]_vars

\* a request granted at once, then a tick: its callback has fired, while an
\* earlier request is still pending
C12_Witness ==
    /\ roundTrip = 7
    /\ Fired(calls) = 1
    /\ Len(pendReq) > 0
    /\ ev.kind = "drain"

\* the run so far is the scenario: a 16-entry counter-only predictor and the
\* same branch, taken each time
BranchScenario ==
    /\ predictorSize = 4 /\ predictorModel = 0
    /\ \A i \in 1 .. Len(predLog) :
          predLog[i].pcAddress = 8 /\ predLog[i].nextPCAddress = BranchTarget

\* what the first n calls returned: TRUE for the record's target (taken),
\* FALSE for pcAddress + 4
Predicted(n) ==
    [i \in 1 .. n |-> predLog[i].predAddress = predLog[i].nextPCAddress]

\* C13 as stated: in the scenario the three encounters, from counter 1, are
\* predicted not taken, not taken, taken.
C13_ScenarioAsStated ==
    (BranchScenario /\ Len(predLog) = 3) => Predicted(3) = <<FALSE, FALSE, TRUE>>

\* C13 amended: in the scenario the three encounters, from counter 1, are
\* predicted not taken, taken, taken: each prediction reads the counter before
\* the update of its own encounter, and the counter goes 1, 2, 3; a not taken
\* prediction returns pcAddress + 4 and a taken one the record's target.
C13_Scenario ==
    (BranchScenario /\ Len(predLog) = 3) =>
        /\ Predicted(3) = <<FALSE, TRUE, TRUE>>
        /\ [i \in 1 .. 3 |-> predLog[i].counter] = <<1, 2, 3>>
        /\ [i \in 1 .. 3 |-> predLog[i].predAddress] = <<8 + 4, BranchTarget, BranchTarget>>

C13_Witness ==
    /\ BranchScenario
    /\ Len(predLog) = 3
    /\ predictorTable[1] = 3
    /\ predLog[3].predAddress = BranchTarget

\* the ways of a set whose line is valid
ValidWays(s) == {w \in DOMAIN sets[s] : sets[s][w].valid}

\* C14: under LRU the recency counters of a set's valid lines rank them by the
\* time since their last access: the line accessed last is the only valid line
\* at 0, and no two valid lines, accessed at different times, have the same
\* counter.
C14_RecencyRanksLines ==
    ~use_RRIP =>
        /\ \A s \in DOMAIN sets :
              /\ ValidWays(s) # {} =>
                    Cardinality({w \in ValidWays(s) : sets[s][w].LRU_counter = 0}) = 1
              /\ \A v, w \in ValidWays(s) :
                    v # w => sets[s][v].LRU_counter # sets[s][w].LRU_counter
        /\ ev.kind = "request" => sets[SetOf(ev.addr)][ev.way].LRU_counter = 0

\* C15: no set ever holds two valid lines with the same tag, under either
\* policy, and a miss installs its tag only in a set none of whose valid lines
\* holds it.
C15_TagUniqueness ==
    /\ [](\A s \in DOMAIN sets : \A v, w \in ValidWays(s) :
              v # w => sets[s][v].tag # sets[s][w].tag)
    /\ [][ (ev'.kind = "request" /\ ~ev'.hit /\ pc' # "aborted") =>
              /\ \A w \in ValidWays(SetOf(ev'.addr)) :
                    sets[SetOf(ev'.addr)][w].tag # ev'.addr \div (block_size * num_sets)
              /\ sets'[SetOf(ev'.addr)][ev'.way].valid
              /\ sets'[SetOf(ev'.addr)][ev'.way].tag = ev'.addr \div (block_size * num_sets)
      ]_vars

\* a 2-way set holding two blocks, the third request having re-read one of them
C15_Witness ==
    /\ lines_per_set = 2
    /\ Cardinality(ValidWays(0)) = 2
    /\ sets[0][0].tag # sets[0][1].tag
    /\ outcomes = <<FALSE, FALSE, TRUE>>
    /\ ev.kind = "request" /\ ev.way = 1

\* the positions of the pending requests of this processor and block address
PendingFor(processorNum, addr) ==
    {k \in 1 .. Len(pendReq) :
        pendReq[k].processorNum = processorNum /\ pendReq[k].addr = addr}

\* C16: a DATA_RECV notification for a (processor, block address) that some
\* pending request has moves exactly one request to the ready list, the one
\* pended last among those of that pair; the other pending requests stay, in
\* their order, and the ready requests stay, behind the new one.
C16_MovesLatestMatch ==
    [][ (ev'.kind = "coher" /\ ev'.type = DATA_RECV /\ pc' # "aborted") =>
            \E k \in PendingFor(ev'.processorNum, ev'.addr) :
                /\ \A j \in PendingFor(ev'.processorNum, ev'.addr) :
                      pendReq[j].tag <= pendReq[k].tag
                /\ pendReq' = SubSeq(pendReq, 1, k - 1) \o SubSeq(pendReq, k + 1, Len(pendReq))
                /\ readyReq' = <<pendReq[k]>> \o readyReq
      ]_vars

\* two requests for block 0 pended, a third granted, then DATA_RECV for block 0:
\* the second is ready ahead of the third and the first still pending
C16_Witness ==
    /\ ev.kind = "coher" /\ ev.type = DATA_RECV /\ ev.hit /\ ev.addr = 0
    /\ Len(pendReq) = 1 /\ pendReq[1].tag = 1 /\ pendReq[1].addr = 0
    /\ Len(readyReq) = 2 /\ readyReq[1].tag = 2 /\ readyReq[2].tag = 3

\* C17: a tick forwards one tick to the coherence component and then drains:
\* between the forward and the drain only notifications happen; the drain
\* invokes, in list order, the callback of every request that is ready when it
\* starts, each once with its processor and tag, leaves the ready list empty
\* and the pending list as it was.
C17_TickForwardsThenDrains ==
    [][ pc' # "aborted" =>
            /\ ev'.kind = "tick" =>
                  /\ pc = "idle" /\ pc' = "coher_tick"
                  /\ cbLog' = cbLog /\ readyReq' = readyReq /\ pendReq' = pendReq
            /\ (pc = "coher_tick" /\ pc' = "coher_tick") => ev'.kind = "coher"
            /\ ev'.kind = "drain" =>
                  /\ pc = "coher_tick" /\ pc' = "idle"
                  /\ Len(cbLog') = Len(cbLog) + Len(readyReq)
                  /\ SubSeq(cbLog', 1, Len(cbLog)) = cbLog
                  /\ \A i \in 1 .. Len(readyReq) :
                        cbLog'[Len(cbLog) + i] =
                            [callback |-> readyReq[i].callback,
                             processorNum |-> readyReq[i].processorNum,
                             tag |-> readyReq[i].tag]
                  /\ readyReq' = <<>>
                  /\ pendReq' = pendReq
      ]_vars

\* a request pended, a second granted, tick entered, the first moved by its
\* DATA_RECV during the coherence tick, then the drain: both callbacks fired
C17_Witness ==
    /\ roundTrip = 9
    /\ ev.kind = "drain"
    /\ cbLog = <<Owed(1, 0), Owed(2, 0)>>
    /\ readyReq = <<>>

\* how many entries of a list carry this tag
Entries(list, tag) == Cardinality({k \in 1 .. Len(list) : list[k].tag = tag})

\* C18: every request made (its memoryRequest call has returned) whose
\* callback has not fired is in exactly one of the pending and the ready list,
\* and once it has fired in neither; a pending request gets to the ready list
\* only by a DATA_RECV notification for its processor and block address.
C18_RequestConservation ==
    /\ [](\A t \in 1 .. Len(outcomes) :
              /\ Fired(t) \in {0, 1}
              /\ Entries(pendReq, t) + Entries(readyReq, t) = 1 - Fired(t))
    /\ [][ pc' # "aborted" =>
              \A k \in 1 .. Len(pendReq) :
                  Entries(readyReq', pendReq[k].tag) > 0 =>
                      /\ ev'.kind = "coher" /\ ev'.type = DATA_RECV
                      /\ ev'.processorNum = pendReq[k].processorNum
                      /\ ev'.addr = pendReq[k].addr
      ]_vars

\* three requests made: the first has fired, the second is ready after its
\* DATA_RECV, the third is pending
C18_Witness ==
    /\ Len(outcomes) = 3
    /\ Fired(1) = 1
    /\ Entries(readyReq, 2) = 1 /\ ev.kind = "coher" /\ ev.hit
    /\ Entries(pendReq, 3) = 1

C20_RRPVBound ==
    use_RRIP =>
        \A s \in DOMAIN sets : \A w \in DOMAIN sets[s] :
            sets[s][w].RRPV \in 0 .. ((2 ^ RRPV_bits) - 1)

\* between two aging passes: a pass has brought the only valid line of a 2-way
\* set with 2 bits to 2, short of the maximum
C20_Witness ==
    /\ use_RRIP /\ RRPV_bits = 2 /\ lines_per_set = 2
    /\ pc = "find_victim" /\ ev.kind = "aging"
    /\ Cardinality(ValidWays(0)) = 1
    /\ \E w \in ValidWays(0) : sets[0][w].RRPV = 2

\* C21: every counter of the table is in 0 .. 3 and, in the history model, the
\* history register is below 2^bhrSize; a branch request reads the counter at
\* an index below 2^predictorSize, returns the record's target if that counter
\* is 2 or 3 and pcAddress + 4 otherwise, then adds one to that counter, up to
\* 3, if the branch went elsewhere than pcAddress + 4 and takes one off, down
\* to 0, otherwise, and changes no other counter.
C21_CounterTable ==
    /\ [](branchState # "unloaded" =>
              /\ \A i \in DOMAIN predictorTable : predictorTable[i] \in 0 .. 3
              /\ bhr \in 0 .. ((2 ^ bhrSize) - 1))
    /\ [][ Len(predLog') = Len(predLog) + 1 =>
              LET r == predLog'[Len(predLog')]
                  i == r.index
                  c == predictorTable[i]
                  taken == r.nextPCAddress # r.pcAddress + 4
              IN  /\ i \in 0 .. ((2 ^ predictorSize) - 1)
                  /\ r.predAddress = (IF c >= 2 THEN r.nextPCAddress ELSE r.pcAddress + 4)
                  /\ predictorTable'[i] =
                        (IF taken THEN (IF c = 3 THEN 3 ELSE c + 1)
                                  ELSE (IF c = 0 THEN 0 ELSE c - 1))
                  /\ \A j \in DOMAIN predictorTable :
                        j # i => predictorTable'[j] = predictorTable[j]
                  /\ DOMAIN predictorTable' = DOMAIN predictorTable
      ]_vars

\* the history model with 2 history bits on a 16-entry table: the same branch
\* taken three times used three counters, and the register, masked, is at 3
C21_Witness ==
    /\ branchCopy = 1 /\ predictorModel = 2 /\ bhrSize = 2 /\ predictorSize = 4
    /\ Len(predLog) = 3
    /\ [k \in 1 .. 3 |-> predLog[k].index] = <<4, 5, 7>>
    /\ bhr = 3
    /\ predictorTable[7] = 2

====
